---- MODULE Spec2Model ----
(***************************************************************************)
(* A model of the simulated customer-service call UI:                      *)
(*   src/src/lib/ai-services.ts          AIServices, getApiKeys            *)
(*   src/src/components/CallInterface.tsx  the call orchestrator           *)
(*   src/unnamed/part_000                ApiKeyManager (the API-key form)  *)
(*                                                                         *)
(* Strings are TLA+ strings; Chars(s) gives a string's characters, which   *)
(* is what toLowerCase, trim, length and includes work on.                 *)
(*                                                                         *)
(* A React handler closes over the state of the render it was created in.  *)
(* An asynchronous handler (startCall, the interval callback) therefore    *)
(* carries an "env": the values of callSession, aiServices and             *)
(* conversationHistory at the render whose button was clicked.  Refs       *)
(* (streamRef, recordingIntervalRef, audioContextRef) are read live.       *)
(***************************************************************************)
EXTENDS Integers, Sequences, FiniteSets, Bags, TLC

\* ------------------------------------------------------------------ bounds
\* Spec: the events from outside a behaviour holds (Start Call clicks, timer
\* ticks, clicks on Mute, Settings and Test, key edits)
MaxEvents == 3
\* SpecSvc: clicks and key edits, and direct calls or key tests awaiting a fetch
SvcEvents == 3
MaxPending == 1

\* ------------------------------------------------------- program constants
MinClipBytes == 1000
MinTranscriptChars == 5

\* ------------------------------------------------------------------ strings
Chars(s) ==
  CASE s = "what are your hours" -> <<"w", "h", "a", "t", " ", "a", "r", "e", " ", "y", "o", "u", "r", " ", "h", "o", "u", "r", "s">>
    [] s = "what is your return policy" -> <<"w", "h", "a", "t", " ", "i", "s", " ", "y", "o", "u", "r", " ", "r", "e", "t", "u", "r", "n", " ", "p", "o", "l", "i", "c", "y">>
    [] s = "how do I track my order" -> <<"h", "o", "w", " ", "d", "o", " ", "I", " ", "t", "r", "a", "c", "k", " ", "m", "y", " ", "o", "r", "d", "e", "r">>
    [] s = "hello there" -> <<"h", "e", "l", "l", "o", " ", "t", "h", "e", "r", "e">>
    [] s = "when do you open" -> <<"w", "h", "e", "n", " ", "d", "o", " ", "y", "o", "u", " ", "o", "p", "e", "n">>
    [] s = "i want a refund" -> <<"i", " ", "w", "a", "n", "t", " ", "a", " ", "r", "e", "f", "u", "n", "d">>
    [] s = "where is my package" -> <<"w", "h", "e", "r", "e", " ", "i", "s", " ", "m", "y", " ", "p", "a", "c", "k", "a", "g", "e">>
    [] s = "  What Are Your HOURS  " -> <<" ", " ", "W", "h", "a", "t", " ", "A", "r", "e", " ", "Y", "o", "u", "r", " ", "H", "O", "U", "R", "S", " ", " ">>
    [] s = "thank you" -> <<"t", "h", "a", "n", "k", " ", "y", "o", "u">>
    [] s = "how do I return my order" -> <<"h", "o", "w", " ", "d", "o", " ", "I", " ", "r", "e", "t", "u", "r", "n", " ", "m", "y", " ", "o", "r", "d", "e", "r">>
    [] s = "" -> <<>>
    [] s = "what time is my order shipping" -> <<"w", "h", "a", "t", " ", "t", "i", "m", "e", " ", "i", "s", " ", "m", "y", " ", "o", "r", "d", "e", "r", " ", "s", "h", "i", "p", "p", "i", "n", "g">>
    [] s = "tell me about yourself" -> <<"t", "e", "l", "l", " ", "m", "e", " ", "a", "b", "o", "u", "t", " ", "y", "o", "u", "r", "s", "e", "l", "f">>
    [] s = " hey  " -> <<" ", "h", "e", "y", " ", " ">>
    [] s = "hour" -> <<"h", "o", "u", "r">>
    [] s = "open" -> <<"o", "p", "e", "n">>
    [] s = "time" -> <<"t", "i", "m", "e">>
    [] s = "when" -> <<"w", "h", "e", "n">>
    [] s = "what" -> <<"w", "h", "a", "t">>
    [] s = "your" -> <<"y", "o", "u", "r">>
    [] s = "return" -> <<"r", "e", "t", "u", "r", "n">>
    [] s = "refund" -> <<"r", "e", "f", "u", "n", "d">>
    [] s = "policy" -> <<"p", "o", "l", "i", "c", "y">>
    [] s = "how" -> <<"h", "o", "w">>
    [] s = "track" -> <<"t", "r", "a", "c", "k">>
    [] s = "order" -> <<"o", "r", "d", "e", "r">>
    [] s = "shipping" -> <<"s", "h", "i", "p", "p", "i", "n", "g">>
    [] s = "package" -> <<"p", "a", "c", "k", "a", "g", "e">>
    [] s = "where" -> <<"w", "h", "e", "r", "e">>
    [] s = "my" -> <<"m", "y">>
    [] s = "our" -> <<"o", "u", "r">>
    [] s = "Track my order" -> <<"T", "r", "a", "c", "k", " ", "m", "y", " ", "o", "r", "d", "e", "r">>
    [] s = "\thell" -> <<"\t", "h", "e", "l", "l">>
    [] s = "\tWhen do you open\r\n" -> <<"\t", "W", "h", "e", "n", " ", "d", "o", " ", "y", "o", "u", " ", "o", "p", "e", "n", "\r", "\n">>
    [] s = "BE MY PACKAGE" -> <<"B", "E", " ", "M", "Y", " ", "P", "A", "C", "K", "A", "G", "E">>
\* the WhiteSpace and LineTerminator code points String.prototype.trim strips;
\* those a TLA+ string cannot hold are named by their code point
Whitespace ==
  {" ", "\t", "\n", "\r", "\f", "U+000B", "U+00A0", "U+FEFF", "U+1680", "U+2000",
   "U+2001", "U+2002", "U+2003", "U+2004", "U+2005", "U+2006", "U+2007", "U+2008",
   "U+2009", "U+200A", "U+2028", "U+2029", "U+202F", "U+205F", "U+3000"}

\* String.prototype.toLowerCase on the characters of the model's alphabet
\* (ASCII letters, digits, punctuation and white space)
LowerChar(c) ==
  CASE c = "A" -> "a"
    [] c = "B" -> "b"
    [] c = "C" -> "c"
    [] c = "D" -> "d"
    [] c = "E" -> "e"
    [] c = "F" -> "f"
    [] c = "G" -> "g"
    [] c = "H" -> "h"
    [] c = "I" -> "i"
    [] c = "J" -> "j"
    [] c = "K" -> "k"
    [] c = "L" -> "l"
    [] c = "M" -> "m"
    [] c = "N" -> "n"
    [] c = "O" -> "o"
    [] c = "P" -> "p"
    [] c = "Q" -> "q"
    [] c = "R" -> "r"
    [] c = "S" -> "s"
    [] c = "T" -> "t"
    [] c = "U" -> "u"
    [] c = "V" -> "v"
    [] c = "W" -> "w"
    [] c = "X" -> "x"
    [] c = "Y" -> "y"
    [] c = "Z" -> "z"
    [] OTHER -> c

ToLowerCase(cs) == [i \in 1..Len(cs) |-> LowerChar(cs[i])]

RECURSIVE TrimStart(_)
TrimStart(cs) ==
  IF cs # <<>> /\ Head(cs) \in Whitespace THEN TrimStart(Tail(cs)) ELSE cs

RECURSIVE TrimEnd(_)
TrimEnd(cs) ==
  IF cs # <<>> /\ cs[Len(cs)] \in Whitespace
  THEN TrimEnd(SubSeq(cs, 1, Len(cs) - 1)) ELSE cs

Trim(cs) == TrimEnd(TrimStart(cs))

Includes(cs, sub) ==
  \E i \in 1..(Len(cs) - Len(sub) + 1) : SubSeq(cs, i, i + Len(sub) - 1) = sub

\* ------------------------------------------------- ai-services.ts: AIServices
HoursResponse == "We're open Monday through Friday, 9 AM to 6 PM Eastern Time. We're closed on weekends and holidays."
ReturnResponse == "We offer a 30-day return policy for all items. Items must be in original condition with receipt. Free return shipping is included."
TrackingResponse == "You can track your order using the tracking number sent to your email, or log into your account on our website to view real-time updates."
FallbackResponse == "Hi! I can help you with three main topics: our business hours, return policy, or order tracking. Please ask me about one of those and I'll give you a quick answer!"
Greeting == "Hello! Thank you for calling our customer service. How can I help you today?"

predefinedResponses(key) ==
  CASE key = "hours" -> HoursResponse
    [] key = "return" -> ReturnResponse
    [] key = "tracking" -> TrackingResponse

HasAny(m, words) == \E w \in words : Includes(m, Chars(w))

\* variant: the hours rule looks for "our" where the code looks for "hour"
DetectQuestionTypo(message) ==
  LET m == Trim(ToLowerCase(Chars(message))) IN
  IF HasAny(m, {"our", "open", "time", "when"}) /\ HasAny(m, {"what", "when", "your"})
  THEN "hours"
  ELSE IF HasAny(m, {"return", "refund", "policy"}) /\ HasAny(m, {"what", "how", "your"})
  THEN "return"
  ELSE IF HasAny(m, {"track", "order", "shipping", "package"}) /\ HasAny(m, {"how", "where", "my"})
  THEN "tracking"
  ELSE "null"

\* variant: a topic keyword alone decides, without the question word
DetectQuestionAnyKeyword(message) ==
  LET m == Trim(ToLowerCase(Chars(message))) IN
  IF HasAny(m, {"hour", "open", "time", "when"}) THEN "hours"
  ELSE IF HasAny(m, {"return", "refund", "policy"}) THEN "return"
  ELSE IF HasAny(m, {"track", "order", "shipping", "package"}) THEN "tracking"
  ELSE "null"

detectQuestion(message) ==
  LET normalizedMessage == Trim(ToLowerCase(Chars(message))) IN
  IF HasAny(normalizedMessage, {"hour", "open", "time", "when"})
     /\ HasAny(normalizedMessage, {"what", "when", "your"})
  THEN "hours"
  ELSE IF HasAny(normalizedMessage, {"return", "refund", "policy"})
          /\ HasAny(normalizedMessage, {"what", "how", "your"})
  THEN "return"
  ELSE IF HasAny(normalizedMessage, {"track", "order", "shipping", "package"})
          /\ HasAny(normalizedMessage, {"how", "where", "my"})
  THEN "tracking"
  ELSE "null"

generateResponse(customerMessage, history) ==
  LET detectedQuestion == detectQuestion(customerMessage) IN
  IF detectedQuestion # "null" /\ detectedQuestion \in {"hours", "return", "tracking"}
  THEN predefinedResponses(detectedQuestion)
  ELSE FallbackResponse

\* variant: speechToText without its key guard
speechToTextRequestUnguarded(keys) ==
  [threw |-> FALSE, error |-> "",
   req |-> {[url |-> "https://api.openai.com/v1/audio/transcriptions",
             key |-> keys.openaiKey]}]

\* speechToText up to its fetch: the key guard, then the request it issues
speechToTextRequest(keys) ==
  IF keys.openaiKey = ""
  THEN [threw |-> TRUE, error |-> "OpenAI API key not configured", req |-> {}]
  ELSE [threw |-> FALSE, error |-> "",
        req |-> {[url |-> "https://api.openai.com/v1/audio/transcriptions",
                  key |-> keys.openaiKey]}]

\* speechToText after its fetch: response = [ok, text]; the error message is
\* kept up to the response body that follows "Whisper API error: "
speechToTextResponse(response) ==
  IF ~response.ok
  THEN [threw |-> TRUE, error |-> "Whisper API error", value |-> ""]
  ELSE [threw |-> FALSE, error |-> "", value |-> response.text]

\* textToSpeech up to its fetch
textToSpeechRequest(keys) ==
  IF keys.elevenlabsKey = ""
  THEN [threw |-> TRUE, error |-> "ElevenLabs API key not configured", req |-> {}]
  ELSE [threw |-> FALSE, error |-> "",
        req |-> {[url |-> "https://api.elevenlabs.io/v1/text-to-speech/21m00Tcm4TlvDq8ikWAM",
                  key |-> keys.elevenlabsKey]}]

\* textToSpeech after its fetch
textToSpeechResponse(ok) ==
  IF ~ok
  THEN [threw |-> TRUE, error |-> "ElevenLabs API error"]
  ELSE [threw |-> FALSE, error |-> ""]

\* part_000 (ApiKeyManager) testApiKey up to its fetch: returns silently on an
\* empty key, otherwise sends one request that carries the key
testApiKeyRequest(keys, keyType) ==
  LET key == IF keyType = "openaiKey" THEN keys.openaiKey ELSE keys.elevenlabsKey IN
  IF key = ""
  THEN [threw |-> FALSE, returned |-> TRUE, req |-> {}]
  ELSE [threw |-> FALSE, returned |-> FALSE,
        req |-> {[url |-> IF keyType = "openaiKey"
                          THEN "https://api.openai.com/v1/models"
                          ELSE "https://api.elevenlabs.io/v1/user",
                  key |-> key]}]

\* the toast testApiKey ends with: ok, not ok, or the fetch itself failed
testApiKeyToast(keyType, outcome) ==
  CASE outcome = "ok" ->
         IF keyType = "openaiKey" THEN "OpenAI API Key Valid" ELSE "ElevenLabs API Key Valid"
    [] outcome = "notok" ->
         IF keyType = "openaiKey" THEN "Invalid OpenAI API Key" ELSE "Invalid ElevenLabs API Key"
    [] OTHER -> "Connection Error"

\* ------------------------------------------------------------- data values
EmptyKeys == [openaiKey |-> "", elevenlabsKey |-> ""]
KeyChoices ==
  {[openaiKey |-> o, elevenlabsKey |-> e] : o \in {"", "sk-1"}, e \in {"", "el-1"}}

\* aiServices: null, or an AIServices object holding its own copy of the keys
NullServices == [isNull |-> TRUE, apiKeys |-> EmptyKeys]
AIServices(keys) == [isNull |-> FALSE, apiKeys |-> keys]

\* getApiKeys: the stored keys, or two empty strings when nothing is stored
NoItem == [saved |-> FALSE, value |-> EmptyKeys]
getApiKeys(item) == IF item.saved THEN item.value ELSE EmptyKeys

\* updateAIServices: the value handed to setAiServices
updateAIServices(item) ==
  LET keys == getApiKeys(item) IN
  IF keys.openaiKey # "" /\ keys.elevenlabsKey # "" THEN AIServices(keys) ELSE NullServices

\* a Date, undefined, and the ISO string JSON.stringify turns a Date into
Date(t) == [kind |-> "Date", t |-> t]
Undefined == [kind |-> "undefined", t |-> 0]
ToJSON(d) == IF d.kind = "Date" THEN [kind |-> "string", t |-> d.t] ELSE d

\* callSession: null, or a CallSession.  Message ids and timestamps (clock
\* reads that nothing consults) are left out of a message.
NoSession ==
  [isNull |-> TRUE, id |-> 0, messages |-> <<>>, startTime |-> Undefined,
   endTime |-> Undefined, status |-> "idle"]
Message(text, speaker) == [text |-> text, speaker |-> speaker]
newSession(now) ==
  [isNull |-> FALSE, id |-> now, messages |-> <<Message(Greeting, "agent")>>,
   startTime |-> Date(now), endTime |-> Undefined, status |-> "active"]

\* JSON.stringify of a session, as localStorage keeps it
JsonSession(s) ==
  [s EXCEPT !.startTime = ToJSON(s.startTime), !.endTime = ToJSON(s.endTime)]

NoStream == [isNull |-> TRUE, id |-> 0, stopped |-> FALSE, enabled |-> FALSE]
NoContext == [isNull |-> TRUE, id |-> 0, closed |-> FALSE]
NoTimer == 0

ClipSizes == {999, 1000}
Transcripts == {"", " hey  ", "\thell", "what are your hours"}

\* -------------------------------------------------------------------- state
VARIABLES
  callSession,            \* useState: the current CallSession or null
  isRecording,            \* useState
  isMuted,                \* useState
  isProcessing,           \* useState
  showSettings,           \* useState
  aiServices,             \* useState: AIServices or null
  conversationHistory,    \* useState: sequence of [role, content]
  streamRef,              \* useRef: the MediaStream (its tracks' stopped/enabled)
  audioContextRef,        \* useRef: the AudioContext
  recordingIntervalRef,   \* useRef: id of the interval last armed, or NoTimer
  sessionItem,            \* sessionStorage 'ai-agent-api-keys'
  storedSessions,         \* localStorage 'ai-agent-sessions', as parsed JSON
  apiKeys,                \* ApiKeyManager's useState (mounted while showSettings)
  starts,                 \* startCall invocations awaiting a promise
  timers,                 \* armed intervals, each with the closure it calls
  cycles,                 \* interval callbacks awaiting a promise (a bag)
  sent,                   \* the HTTP requests the last step sent: [url, key]
  shown,                  \* the title of the toast the last step showed, or ""
  logged,                 \* what the last step gave console.error: <<message, error>>
  lastDone,               \* the interval callback that returned in the last step
  nCalls, nTicks, nEnds,  \* startCall clicks, interval ticks, endCall clicks
  nClicks,                \* clicks on Mute, Settings and Test, and key edits
  clock,                  \* Date.now()
  svcKeys,                \* the ApiKeys of an AIServices object used directly
  svcLast,                \* the last direct method call or key test, and its outcome
  awaiting                \* direct calls and key tests whose fetch is pending (a bag)

uiVars ==
  <<callSession, isRecording, isMuted, isProcessing, showSettings, aiServices,
    conversationHistory, streamRef, audioContextRef, recordingIntervalRef,
    sessionItem, storedSessions, apiKeys, starts, timers, cycles, lastDone,
    nCalls, nTicks, nEnds, nClicks, clock>>
svcVars == <<svcKeys, svcLast, awaiting>>
outVars == <<sent, shown, logged>>
vars == <<uiVars, outVars, nClicks, svcVars>>

NoLog == <<"", "">>
NoCall == [op |-> "none", arg |-> "", key |-> "", history |-> <<>>, pending |-> FALSE,
           threw |-> FALSE, error |-> "", value |-> "", req |-> {}]
NoCycle ==
  [timer |-> 0, pc |-> "none", size |-> -1, transcript |-> "",
   response |-> "", outcome |-> "", trace |-> <<>>, endedEarly |-> FALSE,
   env |-> [callSession |-> NoSession, aiServices |-> NullServices,
            conversationHistory |-> <<>>]]

\* the closure a handler of the current render carries
Env ==
  [callSession |-> callSession, aiServices |-> aiServices,
   conversationHistory |-> conversationHistory]

\* ApiKeyManager mounts when showSettings turns true: its effect loads the
\* stored keys; unmounted, its state is gone
mountedKeys(wasShown, isShown, item, keys) ==
  IF ~isShown THEN EmptyKeys
  ELSE IF wasShown THEN keys
  ELSE getApiKeys(item)

\* the events from outside so far
Events == nCalls + nTicks + nClicks

\* a continuation of `await generateResponse(...)` is a microtask: it runs
\* before any timer, click or network event
MicrotaskPending == \E c \in BagToSet(cycles) : c.pc = "gen"

MainItems ==
  {NoItem,
   [saved |-> TRUE, value |-> [openaiKey |-> "sk-1", elevenlabsKey |-> "el-1"]],
   [saved |-> TRUE, value |-> [openaiKey |-> "sk-1", elevenlabsKey |-> ""]]}

\* the page after its first render and mount effect (updateAIServices)
InitUi ==
  /\ callSession = NoSession
  /\ isRecording = FALSE
  /\ isMuted = FALSE
  /\ isProcessing = FALSE
  /\ showSettings = FALSE
  /\ aiServices = updateAIServices(sessionItem)
  /\ conversationHistory = <<>>
  /\ streamRef = NoStream
  /\ audioContextRef = NoContext
  /\ recordingIntervalRef = NoTimer
  /\ storedSessions = <<>>
  /\ apiKeys = EmptyKeys
  /\ starts = {}
  /\ timers = {}
  /\ cycles = EmptyBag
  /\ sent = {}
  /\ shown = ""
  /\ logged = NoLog
  /\ lastDone = NoCycle
  /\ nCalls = 0 /\ nTicks = 0 /\ nEnds = 0 /\ nClicks = 0
  /\ clock = 1

Init ==
  /\ sessionItem \in MainItems
  /\ InitUi
  /\ svcKeys = EmptyKeys
  /\ svcLast = NoCall
  /\ awaiting = EmptyBag

\* ------------------------------------------------ CallInterface.tsx: helpers
\* addMessage, run in a closure whose callSession is `cs`: the value handed to
\* setCallSession, or `current` when it returns early
addMessage(cs, current, text, speaker) ==
  IF cs.isNull THEN current
  ELSE [cs EXCEPT !.messages = Append(cs.messages, Message(text, speaker))]

\* variant: the size test off by one
tooSmallOff(size) == size < MinClipBytes - 1

\* the clip-size test of the interval callback
tooSmall(size) == size < MinClipBytes

\* variant: the transcript test without trim()
tooShortUntrimmed(transcript) ==
  transcript = "" \/ Len(Chars(transcript)) < MinTranscriptChars

\* the transcript test of the interval callback
tooShort(transcript) ==
  transcript = "" \/ Len(Trim(Chars(transcript))) < MinTranscriptChars

\* variant: endedSession that keeps the status
endedSessionNoStatus(cs, now) == [cs EXCEPT !.endTime = Date(now)]

\* endCall's endedSession
endedSession(cs, now) == [cs EXCEPT !.status = "ended", !.endTime = Date(now)]

\* variant: a callback that also returns while a cycle is processing
intervalReturnsWhenBusy(stream, env) ==
  stream.isNull \/ env.aiServices.isNull \/ isProcessing

\* the early return of the interval callback
intervalReturns(stream, env) == stream.isNull \/ env.aiServices.isNull

\* how many elements of the bag b are in the set S
RECURSIVE Copies(_, _)
Copies(b, S) ==
  IF S = {} THEN 0
  ELSE LET c == CHOOSE x \in S : TRUE IN CopiesIn(c, b) + Copies(b, S \ {c})

\* variant: an endCall that aborts the callbacks in flight
inFlightAfterEndCallAborted(cs) == EmptyBag

\* what endCall does to the interval callbacks in flight: nothing (one that
\* is still recording only notes that endCall ran)
inFlightAfterEndCall(cs) ==
  LET noted(c) == [c EXCEPT !.endedEarly = @ \/ c.pc = "recording"]
      from(d) == {c \in BagToSet(cs) : noted(c) = d}
  IN [d \in {noted(c) : c \in BagToSet(cs)} |-> Copies(cs, from(d))]

\* variant: a callback that requests synthesis without awaiting generation
nextAwaitSkipsGeneration(pc) ==
  CASE pc = "recording" -> "stt"
    [] pc = "stt" -> "tts"
    [] pc = "gen" -> "tts"
    [] pc = "tts" -> "play"

\* the await an interval callback reaches after the one it was at: recordAudio,
\* speechToText, generateResponse, textToSpeech, playAudio, each awaited in turn
nextAwait(pc) ==
  CASE pc = "recording" -> "stt"
    [] pc = "stt" -> "gen"
    [] pc = "gen" -> "tts"
    [] pc = "tts" -> "play"

\* variant: a startCall that never takes the `if (!aiServices)` branch
servicesAbsentNever(env) == FALSE

\* startCall's `if (!aiServices)`, in the closure env
servicesAbsent(env) == env.aiServices.isNull

\* startPeriodicRecording, called from the startCall invocation s
startPeriodicRecording(s, stream) ==
  IF stream.isNull \/ s.env.aiServices.isNull
  THEN UNCHANGED <<timers, recordingIntervalRef>>
  ELSE /\ timers' = timers \cup {[id |-> s.id, env |-> s.env]}
       /\ recordingIntervalRef' = s.id

\* the interval callback c returns in the state d: it leaves `cycles` and
\* becomes lastDone
Return(c, d, outcome) ==
  /\ cycles' = cycles (-) SetToBag({c})
  /\ lastDone' = [NoCycle EXCEPT !.pc = "done", !.outcome = outcome, !.size = d.size,
                                 !.transcript = d.transcript, !.trace = d.trace,
                                 !.endedEarly = d.endedEarly]

Step(c, d) == cycles' = (cycles (-) SetToBag({c})) (+) SetToBag({d})

\* a step in which no interval callback returns
NoReturn == lastDone' = NoCycle

\* what a step sends, shows and logs
Out(reqs, toast, log) == sent' = reqs /\ shown' = toast /\ logged' = log

\* ------------------------------------------------------------------ startCall
\* the Start Call button (shown when there is no session or it has ended):
\* startCall runs to `await getUserMedia`
StartCall(maxEvents) ==
  /\ ~MicrotaskPending
  /\ Events < maxEvents
  /\ callSession.isNull \/ callSession.status = "ended"
  /\ nCalls' = nCalls + 1
  /\ starts' = starts \cup {[id |-> nCalls + 1, pc |-> "getUserMedia", env |-> Env]}
  /\ Out({}, "", NoLog)
  /\ NoReturn
  /\ UNCHANGED <<callSession, isRecording, isMuted, isProcessing, showSettings,
                 aiServices, conversationHistory, streamRef, audioContextRef,
                 recordingIntervalRef, sessionItem, storedSessions, apiKeys, timers,
                 cycles, nTicks, nEnds, clock, nClicks, svcVars>>

\* getUserMedia rejects: the outer catch
GetUserMediaRejected ==
  \E s \in starts :
    /\ ~MicrotaskPending
    /\ s.pc = "getUserMedia"
    /\ starts' = starts \ {s}
    /\ Out({}, "Microphone Error", <<"Error starting call:", "getUserMedia rejected">>)
    /\ NoReturn
    /\ UNCHANGED <<callSession, isRecording, isMuted, isProcessing, showSettings,
                   aiServices, conversationHistory, streamRef, audioContextRef,
                   recordingIntervalRef, sessionItem, storedSessions, apiKeys,
                   timers, cycles, nCalls, nTicks, nEnds, clock, nClicks, svcVars>>

\* getUserMedia resolves: startCall runs on to the aiServices check and, with
\* services, to the fetch of the welcome message
GetUserMediaResolved ==
  \E s \in starts :
    LET stream == [isNull |-> FALSE, id |-> s.id, stopped |-> FALSE, enabled |-> TRUE]
        tts == textToSpeechRequest(s.env.aiServices.apiKeys)
    IN
    /\ ~MicrotaskPending
    /\ s.pc = "getUserMedia"
    /\ streamRef' = stream
    /\ audioContextRef' = [isNull |-> FALSE, id |-> s.id, closed |-> FALSE]
    /\ callSession' = newSession(clock)
    /\ clock' = clock + 1
    /\ isRecording' = TRUE
    /\ IF servicesAbsent(s.env)
       THEN /\ Out({}, "API Keys Required", NoLog)
            /\ showSettings' = TRUE
            /\ apiKeys' = mountedKeys(showSettings, TRUE, sessionItem, apiKeys)
            /\ starts' = starts \ {s}
            /\ UNCHANGED <<timers, recordingIntervalRef>>
       ELSE /\ UNCHANGED <<showSettings, apiKeys>>
            /\ IF tts.threw
               THEN /\ Out({}, "", <<"Error playing welcome message:", tts.error>>)
                    /\ starts' = starts \ {s}
                    /\ startPeriodicRecording(s, stream)
               ELSE /\ Out(tts.req, "", NoLog)
                    /\ starts' = (starts \ {s}) \cup {[s EXCEPT !.pc = "tts"]}
                    /\ UNCHANGED <<timers, recordingIntervalRef>>
    /\ NoReturn
    /\ UNCHANGED <<isMuted, isProcessing, aiServices, conversationHistory,
                   sessionItem, storedSessions, cycles, nCalls, nTicks,
                   nEnds, nClicks, svcVars>>

\* the welcome message's fetch answers
WelcomeSpeechResponse ==
  \E s \in starts, ok \in BOOLEAN :
    /\ ~MicrotaskPending
    /\ s.pc = "tts"
    /\ IF textToSpeechResponse(ok).threw
       THEN /\ Out({}, "", <<"Error playing welcome message:", textToSpeechResponse(ok).error>>)
            /\ starts' = starts \ {s}
            /\ startPeriodicRecording(s, streamRef)
       ELSE /\ Out({}, "", NoLog)
            /\ starts' = (starts \ {s}) \cup {[s EXCEPT !.pc = "play"]}
            /\ UNCHANGED <<timers, recordingIntervalRef>>
    /\ NoReturn
    /\ UNCHANGED <<callSession, isRecording, isMuted, isProcessing, showSettings,
                   aiServices, conversationHistory, streamRef, audioContextRef,
                   sessionItem, storedSessions, apiKeys, cycles,
                   nCalls, nTicks, nEnds, clock, nClicks, svcVars>>

\* playAudio of the welcome message ends (played, or decodeAudioData rejects)
WelcomePlayed ==
  \E s \in starts, ok \in BOOLEAN :
    /\ ~MicrotaskPending
    /\ s.pc = "play"
    /\ Out({}, "", IF ok THEN NoLog
                    ELSE <<"Error playing welcome message:", "decodeAudioData rejected">>)
    /\ starts' = starts \ {s}
    /\ startPeriodicRecording(s, streamRef)
    /\ NoReturn
    /\ UNCHANGED <<callSession, isRecording, isMuted, isProcessing, showSettings,
                   aiServices, conversationHistory, streamRef, audioContextRef,
                   sessionItem, storedSessions, apiKeys, cycles,
                   nCalls, nTicks, nEnds, clock, nClicks, svcVars>>

\* ------------------------------------------------------ the interval callback
\* a tick of an armed interval: the callback runs to `await recordAudio`
Tick(maxEvents) ==
  \E t \in timers :
    /\ ~MicrotaskPending
    /\ Events < maxEvents
    /\ nTicks' = nTicks + 1
    /\ IF intervalReturns(streamRef, t.env)
       THEN UNCHANGED <<isProcessing, cycles>>
       ELSE /\ isProcessing' = TRUE
            /\ cycles' = cycles (+) SetToBag(
                 {[NoCycle EXCEPT !.timer = t.id, !.pc = "recording", !.env = t.env,
                                  !.trace = <<"recordAudio">>]})
    /\ Out({}, "", NoLog)
    /\ NoReturn
    /\ UNCHANGED <<callSession, isRecording, isMuted, showSettings, aiServices,
                   conversationHistory, streamRef, audioContextRef,
                   recordingIntervalRef, sessionItem, storedSessions, apiKeys,
                   starts, timers, nCalls, nEnds, clock, nClicks, svcVars>>

\* recordAudio rejects (MediaRecorder error): the callback's catch
RecordingFailed ==
  \E c \in BagToSet(cycles) :
    /\ ~MicrotaskPending
    /\ c.pc = "recording"
    /\ Out({}, "", <<"Error processing audio:", "MediaRecorder error">>)
    /\ isProcessing' = FALSE
    /\ Return(c, [c EXCEPT !.trace = Append(@, "recordAudio failed")], "error")
    /\ UNCHANGED <<callSession, isRecording, isMuted, showSettings, aiServices,
                   conversationHistory, streamRef, audioContextRef,
                   recordingIntervalRef, sessionItem, storedSessions, apiKeys,
                   starts, timers, nCalls, nTicks, nEnds, clock, nClicks, svcVars>>

\* recordAudio resolves with a clip of `size` bytes: the size test, then
\* speechToText up to its fetch
Recorded ==
  \E c \in BagToSet(cycles), size \in ClipSizes :
    LET stt == speechToTextRequest(c.env.aiServices.apiKeys)
        d == [c EXCEPT !.size = size]
    IN
    /\ ~MicrotaskPending
    /\ c.pc = "recording"
    /\ IF tooSmall(size)
       THEN /\ isProcessing' = FALSE
            /\ Return(c, d, "silence")
            /\ Out({}, "", NoLog)
       ELSE IF stt.threw
       THEN /\ Out({}, "", <<"Error processing audio:", stt.error>>)
            /\ isProcessing' = FALSE
            /\ Return(c, [d EXCEPT !.trace = Append(@, "speechToText failed")], "error")
       ELSE /\ Out(stt.req, "", NoLog)
            /\ Step(c, [d EXCEPT !.pc = nextAwait(c.pc), !.trace = Append(@, "speechToText")])
            /\ NoReturn
            /\ UNCHANGED isProcessing
    /\ UNCHANGED <<callSession, isRecording, isMuted, showSettings, aiServices,
                   conversationHistory, streamRef, audioContextRef,
                   recordingIntervalRef, sessionItem, storedSessions, apiKeys,
                   starts, timers, nCalls, nTicks, nEnds, clock, nClicks, svcVars>>

SttResponses ==
  {[ok |-> FALSE, text |-> ""]} \cup {[ok |-> TRUE, text |-> t] : t \in Transcripts}

\* the transcription fetch answers: the transcript test, then
\* processCustomerMessage up to `await generateResponse`
Transcribed ==
  \E c \in BagToSet(cycles), response \in SttResponses :
    LET stt == speechToTextResponse(response)
        transcript == stt.value
        afterCustomer == addMessage(c.env.callSession, callSession, transcript, "customer")
        d == [c EXCEPT !.transcript = transcript]
    IN
    /\ ~MicrotaskPending
    /\ c.pc = "stt"
    /\ IF stt.threw
       THEN /\ Out({}, "", <<"Error processing audio:", stt.error>>)
            /\ isProcessing' = FALSE
            /\ Return(c, [c EXCEPT !.trace = Append(@, "speechToText failed")], "error")
            /\ UNCHANGED callSession
       ELSE IF tooShort(transcript)
       THEN /\ isProcessing' = FALSE
            /\ Return(c, [d EXCEPT !.trace = Append(@, "transcribed")], "short")
            /\ Out({}, "", NoLog)
            /\ UNCHANGED callSession
       ELSE /\ callSession' = afterCustomer
            /\ Step(c, [d EXCEPT
                          !.pc = nextAwait(c.pc),
                          !.response = generateResponse(transcript, c.env.conversationHistory),
                          !.trace = @ \o <<"transcribed", "addMessage customer",
                                           "generateResponse">>])
            /\ Out({}, "", NoLog)
            /\ NoReturn
            /\ UNCHANGED isProcessing
    /\ UNCHANGED <<isRecording, isMuted, showSettings, aiServices,
                   conversationHistory, streamRef, audioContextRef,
                   recordingIntervalRef, sessionItem, storedSessions, apiKeys,
                   starts, timers, nCalls, nTicks, nEnds, clock, nClicks, svcVars>>

\* generateResponse's promise resolves: the agent's turn, the history, then
\* textToSpeech up to its fetch
Generated ==
  \E c \in BagToSet(cycles) :
    LET afterAgent == addMessage(c.env.callSession, callSession, c.response, "agent")
        newHistory == Append(c.env.conversationHistory,
                             [role |-> "user", content |-> c.transcript])
        updatedHistory == Append(newHistory, [role |-> "assistant", content |-> c.response])
        tts == textToSpeechRequest(c.env.aiServices.apiKeys)
        d == [c EXCEPT !.trace = @ \o <<"generated", "addMessage agent">>]
    IN
    /\ c.pc = "gen"
    /\ callSession' = afterAgent
    /\ conversationHistory' = updatedHistory
    /\ IF tts.threw
       THEN /\ Out({}, "", <<"Error with text-to-speech:", tts.error>>)
            /\ isProcessing' = FALSE
            /\ Return(c, [d EXCEPT !.trace = Append(@, "textToSpeech failed")], "replied")
       ELSE /\ Out(tts.req, "", NoLog)
            /\ Step(c, [d EXCEPT !.pc = nextAwait(c.pc), !.trace = Append(@, "textToSpeech")])
            /\ NoReturn
            /\ UNCHANGED isProcessing
    /\ UNCHANGED <<isRecording, isMuted, showSettings, aiServices, streamRef,
                   audioContextRef, recordingIntervalRef, sessionItem,
                   storedSessions, apiKeys, starts, timers, nCalls, nTicks,
                   nEnds, clock, nClicks, svcVars>>

\* the reply's synthesis fetch answers
ReplySpeechResponse ==
  \E c \in BagToSet(cycles), ok \in BOOLEAN :
    /\ ~MicrotaskPending
    /\ c.pc = "tts"
    /\ IF textToSpeechResponse(ok).threw
       THEN /\ Out({}, "", <<"Error with text-to-speech:", textToSpeechResponse(ok).error>>)
            /\ isProcessing' = FALSE
            /\ Return(c, [c EXCEPT !.trace = Append(@, "textToSpeech failed")], "replied")
       ELSE /\ Out({}, "", NoLog)
            /\ Step(c, [c EXCEPT !.pc = nextAwait(c.pc), !.trace = Append(@, "playAudio")])
            /\ NoReturn
            /\ UNCHANGED isProcessing
    /\ UNCHANGED <<callSession, isRecording, isMuted, showSettings, aiServices,
                   conversationHistory, streamRef, audioContextRef,
                   recordingIntervalRef, sessionItem, storedSessions, apiKeys,
                   starts, timers, nCalls, nTicks, nEnds, clock, nClicks, svcVars>>

\* playAudio of the reply ends (played, or decodeAudioData rejects)
ReplyPlayed ==
  \E c \in BagToSet(cycles), ok \in BOOLEAN :
    /\ ~MicrotaskPending
    /\ c.pc = "play"
    /\ Out({}, "", IF ok THEN NoLog
                    ELSE <<"Error with text-to-speech:", "decodeAudioData rejected">>)
    /\ isProcessing' = FALSE
    /\ Return(c, [c EXCEPT !.trace = Append(@, IF ok THEN "played" ELSE "playAudio failed")],
              "replied")
    /\ UNCHANGED <<callSession, isRecording, isMuted, showSettings, aiServices,
                   conversationHistory, streamRef, audioContextRef,
                   recordingIntervalRef, sessionItem, storedSessions, apiKeys,
                   starts, timers, nCalls, nTicks, nEnds, clock, nClicks, svcVars>>

\* -------------------------------------------------------------------- endCall
\* the End Call button (shown while the session is not ended)
EndCall ==
  /\ ~MicrotaskPending
  /\ ~callSession.isNull /\ callSession.status # "ended"
  /\ timers' = IF recordingIntervalRef # NoTimer
               THEN {t \in timers : t.id # recordingIntervalRef} ELSE timers
  /\ recordingIntervalRef' = NoTimer
  /\ streamRef' = IF streamRef.isNull THEN streamRef ELSE [streamRef EXCEPT !.stopped = TRUE]
  /\ audioContextRef' = IF audioContextRef.isNull THEN audioContextRef
                        ELSE [audioContextRef EXCEPT !.closed = TRUE]
  /\ callSession' = endedSession(callSession, clock)
  /\ storedSessions' = Append(storedSessions, JsonSession(endedSession(callSession, clock)))
  /\ clock' = clock + 1
  /\ isRecording' = FALSE
  /\ conversationHistory' = <<>>
  /\ cycles' = inFlightAfterEndCall(cycles)
  /\ nEnds' = nEnds + 1
  /\ Out({}, "", NoLog)
  /\ NoReturn
  /\ UNCHANGED <<isMuted, isProcessing, showSettings, aiServices, sessionItem,
                 apiKeys, starts, nCalls, nTicks, nClicks, svcVars>>

\* ------------------------------------------------------------------ toggleMute
\* the Mute / Unmute button (shown while the session is not ended)
toggleMute(maxEvents) ==
  /\ ~MicrotaskPending
  /\ Events < maxEvents
  /\ ~callSession.isNull /\ callSession.status # "ended"
  /\ IF streamRef.isNull
     THEN UNCHANGED <<streamRef, isMuted>>
     ELSE /\ streamRef' = [streamRef EXCEPT !.enabled = isMuted]
          /\ isMuted' = ~isMuted
  /\ nClicks' = nClicks + 1
  /\ Out({}, "", NoLog)
  /\ NoReturn
  /\ UNCHANGED <<callSession, isRecording, isProcessing, showSettings, aiServices,
                 conversationHistory, audioContextRef, recordingIntervalRef,
                 sessionItem, storedSessions, apiKeys, starts, timers, cycles,
                 nCalls, nTicks, nEnds, clock, svcVars>>

\* ------------------------------------------------- settings and the key form
\* the settings button: toggles the panel and re-reads the stored keys
ToggleSettings(maxEvents) ==
  /\ ~MicrotaskPending
  /\ Events < maxEvents
  /\ showSettings' = ~showSettings
  /\ aiServices' = updateAIServices(sessionItem)
  /\ apiKeys' = mountedKeys(showSettings, ~showSettings, sessionItem, apiKeys)
  /\ nClicks' = nClicks + 1
  /\ Out({}, "", NoLog)
  /\ NoReturn
  /\ UNCHANGED <<callSession, isRecording, isMuted, isProcessing,
                 conversationHistory, streamRef, audioContextRef,
                 recordingIntervalRef, sessionItem, storedSessions, starts, timers,
                 cycles, nCalls, nTicks, nEnds, clock, svcVars>>

\* part_000 handleKeyChange: typing in one of the two key inputs (the form is
\* on the page while showSettings)
handleKeyChange(maxEvents) ==
  \E keyType \in {"openaiKey", "elevenlabsKey"}, value \in {"", "sk-1", "el-1"} :
    LET newKeys == [apiKeys EXCEPT ![keyType] = value] IN
    /\ ~MicrotaskPending
    /\ Events < maxEvents
    /\ showSettings
    /\ value # apiKeys[keyType]
    /\ value \in (IF keyType = "openaiKey" THEN {"", "sk-1"} ELSE {"", "el-1"})
    /\ apiKeys' = newKeys
    /\ sessionItem' = [saved |-> TRUE, value |-> newKeys]
    /\ nClicks' = nClicks + 1
    /\ Out({}, "", NoLog)
    /\ NoReturn
    /\ UNCHANGED <<callSession, isRecording, isMuted, isProcessing, showSettings,
                   aiServices, conversationHistory, streamRef, audioContextRef,
                   recordingIntervalRef, storedSessions, starts, timers, cycles,
                   nCalls, nTicks, nEnds, clock, svcVars>>

\* part_000 testApiKey up to `await fetch`: the key of the form's state, the
\* silent return on an empty key, else the request.  (The Test button is
\* disabled while the key is empty: with an empty key this is the handler
\* invoked directly.)
testApiKey(maxEvents) ==
  \E keyType \in {"openaiKey", "elevenlabsKey"} :
    LET r == testApiKeyRequest(apiKeys, keyType)
        call == [NoCall EXCEPT !.op = "testApiKey", !.arg = keyType,
                               !.key = apiKeys[keyType], !.threw = r.threw,
                               !.req = r.req]
    IN
    /\ ~MicrotaskPending
    /\ Events < maxEvents
    /\ showSettings
    /\ nClicks' = nClicks + 1
    /\ IF r.returned
       THEN /\ svcLast' = call
            /\ UNCHANGED awaiting
       ELSE /\ svcLast' = [call EXCEPT !.pending = TRUE]
            /\ awaiting' = awaiting (+) SetToBag({call})
    /\ Out(r.req, "", NoLog)
    /\ NoReturn
    /\ UNCHANGED <<callSession, isRecording, isMuted, isProcessing, showSettings,
                   aiServices, conversationHistory, streamRef, audioContextRef,
                   recordingIntervalRef, sessionItem, storedSessions, apiKeys,
                   starts, timers, cycles, nCalls, nTicks, nEnds, clock, svcKeys>>

\* part_000 testApiKey after its fetch: the toast for an OK answer, a non-OK
\* answer or a failed fetch, whether or not the panel is still open
testApiKeyResponse ==
  \E call \in BagToSet(awaiting), outcome \in {"ok", "notok", "failed"} :
    /\ ~MicrotaskPending
    /\ call.op = "testApiKey"
    /\ awaiting' = awaiting (-) SetToBag({call})
    /\ svcLast' = call
    /\ Out({}, testApiKeyToast(call.arg, outcome), NoLog)
    /\ NoReturn
    /\ UNCHANGED <<callSession, isRecording, isMuted, isProcessing, showSettings,
                   aiServices, conversationHistory, streamRef, audioContextRef,
                   recordingIntervalRef, sessionItem, storedSessions, apiKeys,
                   starts, timers, cycles, nCalls, nTicks, nEnds, nClicks, clock,
                   svcKeys>>

\* ------------------------------- AIServices used directly (any ApiKeys object)
Messages ==
  {"what are your hours", "what is your return policy", "how do I track my order",
   "hello there", "when do you open", "i want a refund", "where is my package",
   "  What Are Your HOURS  ", "thank you", "how do I return my order", "",
   "what time is my order shipping", "tell me about yourself", " hey  ",
   "Track my order", "\thell", "\tWhen do you open\r\n", "BE MY PACKAGE"}

Histories ==
  {<<>>,
   <<[role |-> "user", content |-> "hello there"],
     [role |-> "assistant", content |-> FallbackResponse]>>,
   <<[role |-> "user", content |-> "what are your hours"],
     [role |-> "assistant", content |-> HoursResponse],
     [role |-> "user", content |-> "thank you"],
     [role |-> "assistant", content |-> FallbackResponse]>>}

\* new AIServices(keys).speechToText(blob) up to `await fetch`
SvcSpeechToText ==
  LET r == speechToTextRequest(svcKeys)
      call == [NoCall EXCEPT !.op = "speechToText", !.key = svcKeys.openaiKey]
  IN
  /\ BagCardinality(awaiting) < MaxPending
  /\ IF r.threw
     THEN /\ svcLast' = [call EXCEPT !.threw = TRUE, !.error = r.error]
          /\ UNCHANGED awaiting
     ELSE /\ svcLast' = [call EXCEPT !.req = r.req, !.pending = TRUE]
          /\ awaiting' = awaiting (+) SetToBag({[call EXCEPT !.req = r.req]})
  /\ Out(r.req, "", NoLog)
  /\ UNCHANGED <<uiVars, svcKeys>>

\* speechToText after its fetch: the promise rejects or resolves
SvcSpeechToTextResponse ==
  \E call \in BagToSet(awaiting), response \in SttResponses :
    LET a == speechToTextResponse(response) IN
    /\ call.op = "speechToText"
    /\ awaiting' = awaiting (-) SetToBag({call})
    /\ svcLast' = [call EXCEPT !.threw = a.threw, !.error = a.error, !.value = a.value]
    /\ Out({}, "", NoLog)
    /\ UNCHANGED <<uiVars, svcKeys>>

\* new AIServices(keys).generateResponse(message, history)
SvcGenerateResponse ==
  \E message \in Messages, history \in Histories :
    /\ svcLast' = [NoCall EXCEPT !.op = "generateResponse", !.arg = message,
                                 !.history = history,
                                 !.value = generateResponse(message, history)]
    /\ Out({}, "", NoLog)
    /\ UNCHANGED <<uiVars, svcKeys, awaiting>>

\* new AIServices(keys).textToSpeech(text) up to `await fetch`
SvcTextToSpeech ==
  \E text \in {Greeting, FallbackResponse} :
    LET r == textToSpeechRequest(svcKeys)
        call == [NoCall EXCEPT !.op = "textToSpeech", !.arg = text,
                               !.key = svcKeys.elevenlabsKey]
    IN
    /\ BagCardinality(awaiting) < MaxPending
    /\ IF r.threw
       THEN /\ svcLast' = [call EXCEPT !.threw = TRUE, !.error = r.error]
            /\ UNCHANGED awaiting
       ELSE /\ svcLast' = [call EXCEPT !.req = r.req, !.pending = TRUE]
            /\ awaiting' = awaiting (+) SetToBag({[call EXCEPT !.req = r.req]})
    /\ Out(r.req, "", NoLog)
    /\ UNCHANGED <<uiVars, svcKeys>>

\* textToSpeech after its fetch
SvcTextToSpeechResponse ==
  \E call \in BagToSet(awaiting), ok \in BOOLEAN :
    LET a == textToSpeechResponse(ok) IN
    /\ call.op = "textToSpeech"
    /\ awaiting' = awaiting (-) SetToBag({call})
    /\ svcLast' = [call EXCEPT !.threw = a.threw, !.error = a.error]
    /\ Out({}, "", NoLog)
    /\ UNCHANGED <<uiVars, svcKeys>>

InitSvc ==
  /\ sessionItem = NoItem
  /\ InitUi
  /\ svcKeys \in KeyChoices
  /\ svcLast = NoCall
  /\ awaiting = EmptyBag

\* the fetching methods of an AIServices object and the key form, each used on
\* its own
NextSvc ==
  \/ ToggleSettings(SvcEvents)
  \/ handleKeyChange(SvcEvents)
  \/ testApiKey(SvcEvents)
  \/ testApiKeyResponse
  \/ SvcSpeechToText
  \/ SvcSpeechToTextResponse
  \/ SvcTextToSpeech
  \/ SvcTextToSpeechResponse

SpecSvc == InitSvc /\ [][NextSvc]_vars

\* generateResponse, a pure function of its arguments, applied to each message
\* and history
NextGen == SvcGenerateResponse

SpecGen == InitSvc /\ [][NextGen]_vars

\* the page: every handler and every continuation
Next ==
  \/ StartCall(MaxEvents)
  \/ GetUserMediaRejected
  \/ GetUserMediaResolved
  \/ WelcomeSpeechResponse
  \/ WelcomePlayed
  \/ Tick(MaxEvents)
  \/ RecordingFailed
  \/ Recorded
  \/ Transcribed
  \/ Generated
  \/ ReplySpeechResponse
  \/ ReplyPlayed
  \/ EndCall
  \/ toggleMute(MaxEvents)
  \/ ToggleSettings(MaxEvents)
  \/ handleKeyChange(MaxEvents)
  \/ testApiKey(MaxEvents)
  \/ testApiKeyResponse

Spec == Init /\ [][Next]_vars

\* ===================================================================== claims
SeededQuestions ==
  {"what are your hours", "what is your return policy", "how do I track my order"}

\* C1: for each of the three seeded questions generateResponse returns the
\* corresponding canned string, whatever history is passed.
C1_SeededQuestionsGetCannedAnswers ==
  svcLast.op = "generateResponse" =>
    /\ svcLast.arg = "what are your hours" => svcLast.value = HoursResponse
    /\ svcLast.arg = "what is your return policy" => svcLast.value = ReturnResponse
    /\ svcLast.arg = "how do I track my order" => svcLast.value = TrackingResponse

C1_Witness ==
  /\ svcLast.op = "generateResponse"
  /\ svcLast.arg = "what is your return policy"
  /\ Len(svcLast.history) = 4
  /\ svcLast.value = ReturnResponse

\* C2 as stated: every message other than the three seeded questions gets the
\* fallback guidance string.
C2_OtherMessagesGetFallback ==
  (svcLast.op = "generateResponse" /\ svcLast.arg \notin SeededQuestions)
    => svcLast.value = FallbackResponse

\* the three keyword rules, read off the lower-cased and trimmed message
MatchesHours(m) ==
  /\ \E w \in {"hour", "open", "time", "when"} : Includes(m, Chars(w))
  /\ \E w \in {"what", "when", "your"} : Includes(m, Chars(w))
MatchesReturn(m) ==
  /\ \E w \in {"return", "refund", "policy"} : Includes(m, Chars(w))
  /\ \E w \in {"what", "how", "your"} : Includes(m, Chars(w))
MatchesTracking(m) ==
  /\ \E w \in {"track", "order", "shipping", "package"} : Includes(m, Chars(w))
  /\ \E w \in {"how", "where", "my"} : Includes(m, Chars(w))
MatchesNoRule(message) ==
  LET m == Trim(ToLowerCase(Chars(message))) IN
  ~MatchesHours(m) /\ ~MatchesReturn(m) /\ ~MatchesTracking(m)

\* C2 amended: a message that matches none of the three keyword rules (a
\* topic keyword together with a question word) gets the fallback guidance
\* string; any message that matches a rule gets a canned answer, seeded
\* question or not.
C2_UnmatchedMessagesGetFallback ==
  svcLast.op = "generateResponse" =>
    IF MatchesNoRule(svcLast.arg)
    THEN svcLast.value = FallbackResponse
    ELSE svcLast.value \in {HoursResponse, ReturnResponse, TrackingResponse}

C2_Witness ==
  /\ svcLast.op = "generateResponse"
  /\ svcLast.arg = "i want a refund"
  /\ svcLast.value = FallbackResponse

\* C3: a recorded clip smaller than 1000 bytes ends its cycle with no
\* transcription, generation or synthesis call, no request and no message.
C3_SmallClipEndsCycleSilently ==
  (lastDone.pc = "done" /\ lastDone.size >= 0 /\ lastDone.size < 1000) =>
    /\ lastDone.trace = <<"recordAudio">>
    /\ sent = {}

C3_Witness ==
  /\ lastDone.pc = "done"
  /\ lastDone.size = 999
  /\ lastDone.trace = <<"recordAudio">>

InTrace(c, e) == \E i \in 1..Len(c.trace) : c.trace[i] = e

\* C4: a transcript that is empty, or shorter than 5 characters once trimmed,
\* ends its cycle without generateResponse, without a message and without a
\* synthesis call.
C4_ShortTranscriptEndsCycle ==
  (/\ lastDone.pc = "done"
   /\ InTrace(lastDone, "transcribed")
   /\ lastDone.transcript \in {"", " hey  ", "\thell"}) =>
    /\ lastDone.trace = <<"recordAudio", "speechToText", "transcribed">>
    /\ sent = {}

C4_Witness ==
  /\ lastDone.pc = "done"
  /\ lastDone.transcript = " hey  "
  /\ lastDone.trace = <<"recordAudio", "speechToText", "transcribed">>

\* C5: every endCall adds exactly one record to the persisted list, and every
\* record has status 'ended' and an end time.
C5_EachEndCallStoresOneEndedSession ==
  /\ Len(storedSessions) = nEnds
  /\ \A i \in 1..Len(storedSessions) :
       /\ storedSessions[i].status = "ended"
       /\ storedSessions[i].endTime.kind = "string"

C5_Witness ==
  /\ nEnds = 1
  /\ nTicks >= 1
  /\ Len(storedSessions) = 1
  /\ callSession.status = "ended"
  /\ storedSessions[1].id = callSession.id

EmptyKeyCall(op) == svcLast.op = op /\ svcLast.key = ""

\* C6 as stated: speechToText, textToSpeech and the key test each raise an
\* error and send no request when their key is empty.
C6_EmptyKeyRaises ==
  (EmptyKeyCall("speechToText") \/ EmptyKeyCall("textToSpeech") \/ EmptyKeyCall("testApiKey"))
    => (svcLast.threw /\ svcLast.req = {})

\* C6 amended: with an empty key speechToText and textToSpeech raise an error
\* and send no request; the key test returns without an error, a request or a
\* toast; and no request is ever sent with an empty key.
C6_EmptyKeySendsNothing ==
  /\ (EmptyKeyCall("speechToText") \/ EmptyKeyCall("textToSpeech"))
       => (svcLast.threw /\ svcLast.req = {} /\ sent = {})
  /\ EmptyKeyCall("testApiKey")
       => (~svcLast.threw /\ svcLast.req = {} /\ sent = {} /\ shown = "")
  /\ \A r \in sent : r.key # ""

C6_Witness ==
  /\ EmptyKeyCall("speechToText")
  /\ svcLast.threw
  /\ svcLast.error = "OpenAI API key not configured"

\* an external call failed in the last step
ExternalCallFailed ==
  logged[2] \in {"ElevenLabs API key not configured", "ElevenLabs API error",
                 "OpenAI API key not configured", "Whisper API error"}

\* C7: every failure of an external call made during a call is logged and
\* shown to the user as a toast.
C7_FailuresAreToasted ==
  ExternalCallFailed => (logged[1] # "" /\ shown # "")

\* C8: a cycle that passes both thresholds appends the customer's transcript
\* and then the agent's reply to the current session, losing nothing: when
\* generateResponse returns, the session's list ends with the transcript, and
\* the step adds the reply to it.
C8_BothTurnsAppended ==
  [][\A c \in BagToSet(cycles) :
       c.pc = "gen" =>
         LET before == callSession.messages
             after == callSession'.messages
         IN /\ ~callSession'.isNull
            /\ callSession'.id = callSession.id
            /\ before # <<>>
            /\ before[Len(before)] = Message(c.transcript, "customer")
            /\ after = Append(before, Message(c.response, "agent"))]_vars

InFlightOf(timerId) ==
  Copies(cycles, {c \in BagToSet(cycles) : c.timer = timerId})

\* C9: a tick never waits for an earlier cycle: every tick adds one cycle to
\* those in flight, so two cycles of one call can be in flight at once.
C9_TickStartsCycleWhileBusy ==
  [][nTicks' = nTicks + 1 =>
       \E t \in timers :
         /\ InFlightOf(t.id)' = InFlightOf(t.id) + 1
         /\ BagCardinality(cycles') = BagCardinality(cycles) + 1]_vars

C9_Witness ==
  \E c \in BagToSet(cycles) :
    /\ InFlightOf(c.timer) >= 2
    /\ isProcessing

Awaiting(cs) == [pc \in {"recording", "stt", "gen", "tts", "play"} |->
                   Copies(cs, {c \in BagToSet(cs) : c.pc = pc})]

\* C10: endCall cancels no cycle in flight: it clears the timer, stops the
\* tracks and closes the audio context, and every cycle stays at its await, so
\* its remaining steps still run after the call has ended.
C10_EndCallCancelsNoCycle ==
  [][nEnds' = nEnds + 1 =>
       /\ Awaiting(cycles') = Awaiting(cycles)
       /\ recordingIntervalRef' = NoTimer
       /\ streamRef'.stopped
       /\ audioContextRef'.closed]_vars

C10_Witness ==
  /\ lastDone.pc = "done"
  /\ lastDone.endedEarly
  /\ lastDone.trace = <<"recordAudio", "speechToText", "transcribed",
                        "addMessage customer", "generateResponse", "generated",
                        "addMessage agent", "textToSpeech", "playAudio", "played">>
  /\ callSession.status = "ended"

\* in the trace of c every b comes after an a
Before(c, a, b) ==
  \A j \in 1..Len(c.trace) : c.trace[j] = b => \E i \in 1..(j - 1) : c.trace[i] = a

\* C11: within a cycle the steps are strictly ordered: the transcription is
\* requested only once the clip is recorded, generation is invoked only once
\* the transcript is back, and synthesis is requested only once generation has
\* returned, for cycles in flight and for the one that just returned.
C11_CycleStepsInOrder ==
  \A c \in BagToSet(cycles) \cup {lastDone} :
    /\ InTrace(c, "speechToText") => c.size >= MinClipBytes
    /\ Before(c, "speechToText", "transcribed")
    /\ Before(c, "transcribed", "generateResponse")
    /\ Before(c, "generateResponse", "generated")
    /\ Before(c, "generated", "textToSpeech")
    /\ c.pc = "stt" => c.trace[Len(c.trace)] = "speechToText"
    /\ c.pc = "gen" => (InTrace(c, "transcribed") /\ ~InTrace(c, "textToSpeech"))
    /\ c.pc \in {"tts", "play"} =>
         (InTrace(c, "generated") /\ c.response = generateResponse(c.transcript, <<>>))

C11_Witness ==
  \E c \in BagToSet(cycles) :
    /\ c.pc = "tts"
    /\ c.trace = <<"recordAudio", "speechToText", "transcribed", "addMessage customer",
                   "generateResponse", "generated", "addMessage agent", "textToSpeech">>
    /\ \E r \in sent : r.key = "el-1"

\* C12: from a successful startCall until the next endCall the current session
\* is the one that startCall created and it is active: a step that is neither
\* endCall nor the creation of a session keeps the session's id and status, so
\* no message append puts an earlier (ended) session in its place.
C12_SessionStaysCurrent ==
  [][(/\ ~callSession.isNull
      /\ callSession.status = "active"
      /\ nEnds' = nEnds
      /\ callSession' # newSession(clock))
     => (/\ callSession'.id = callSession.id
         /\ callSession'.status = "active")]_vars

\* a startCall whose closure has no AI services gets its microphone
AbsentStartResolves ==
  \E s \in starts :
    /\ s.pc = "getUserMedia"
    /\ s.env.aiServices.isNull
    /\ s \notin starts'
    /\ callSession' # callSession

\* C13: a startCall that runs without an AI services object creates an active
\* session holding the greeting, shows the 'API Keys Required' toast and opens
\* the settings panel; it arms no timer, starts no cycle and sends no request:
\* every timer armed and every cycle in flight comes from a startCall that had
\* its AI services.
C13_AbsentServicesBareSession ==
  /\ [](/\ \A t \in timers : ~t.env.aiServices.isNull
        /\ \A c \in BagToSet(cycles) : ~c.env.aiServices.isNull)
  /\ [][AbsentStartResolves =>
          /\ callSession' = newSession(clock)
          /\ callSession'.status = "active"
          /\ callSession'.messages = <<Message(Greeting, "agent")>>
          /\ shown' = "API Keys Required"
          /\ showSettings'
          /\ timers' = timers /\ recordingIntervalRef' = recordingIntervalRef
          /\ cycles' = cycles /\ sent' = {}]_vars

C13_Witness ==
  /\ aiServices.isNull
  /\ ~callSession.isNull /\ callSession.status = "active"
  /\ callSession.messages = <<Message(Greeting, "agent")>>
  /\ shown = "API Keys Required"
  /\ showSettings
  /\ timers = {}

\* C14: at most one periodic timer is armed, and none is armed while the
\* session is ended and no startCall is under way, also when endCall ran while
\* startCall was still awaiting the microphone or the welcome message.
C14_AtMostOneTimer ==
  /\ Cardinality(timers) <= 1
  /\ (~callSession.isNull /\ callSession.status = "ended" /\ starts = {}) => timers = {}

\* C15: isProcessing is true exactly when at least one cycle is in flight.
C15_ProcessingTracksCycles ==
  isProcessing <=> (BagCardinality(cycles) > 0)

\* C16: within a call the conversation history accumulates: the history a
\* cycle hands to generateResponse is the history of all earlier exchanges,
\* processing the cycle adds its user and assistant entries at the end, and
\* endCall resets the history to empty.
C16_HistoryAccumulates ==
  [][/\ \A c \in BagToSet(cycles) :
          c.pc = "gen" =>
            /\ c.env.conversationHistory = conversationHistory
            /\ conversationHistory' =
                 conversationHistory \o <<[role |-> "user", content |-> c.transcript],
                                          [role |-> "assistant", content |-> c.response]>>
     /\ nEnds' = nEnds + 1 => conversationHistory' = <<>>]_vars

\* C17: whenever a call is active the microphone tracks are enabled exactly
\* when isMuted is false.
C17_TracksFollowMute ==
  (~callSession.isNull /\ callSession.status = "active" /\ ~streamRef.isNull)
    => (streamRef.enabled <=> ~isMuted)

\* C18: at the moment startCall runs, the AI services object is present exactly
\* when both keys in session storage are non-empty, and it carries the stored
\* key values.
C18_ServicesFollowStoredKeys ==
  [][nCalls' = nCalls + 1 =>
       LET stored == getApiKeys(sessionItem) IN
       /\ ~aiServices.isNull <=> (stored.openaiKey # "" /\ stored.elevenlabsKey # "")
       /\ ~aiServices.isNull => aiServices.apiKeys = stored]_vars
====
